---- MODULE Spec2Model ----
(***************************************************************************)
(* Model of NativeStateX11 (src/src/native-state-x11.cpp): the adapter      *)
(* that owns one X11 display connection and one window, creates/recreates   *)
(* the window for requested properties, and polls the event queue for quit  *)
(* signals.  The X server is modelled by the calls the adapter makes on it  *)
(* (XOpenDisplay, XCloseDisplay, XCreateWindow, XDestroyWindow, the event   *)
(* queue) and by nondeterministic outcomes where the server decides.        *)
(*                                                                         *)
(* Strings are sequences of one-character strings, so that splitting and   *)
(* integer parsing are computed and not assumed.                           *)
(***************************************************************************)
EXTENDS Integers, Sequences, FiniteSets, TLC

VARIABLES
    phase,              \* "alive" until the destructor has run, then "destroyed"
    xdpy_,              \* NativeStateX11::xdpy_  (0 = null, else connection id)
    xwin_,              \* NativeStateX11::xwin_  (0 = null, else window id)
    properties_,        \* NativeStateX11::properties_
    wm_delete_window_,  \* NativeStateX11::wm_delete_window_
    winsys_options,     \* Options::winsys_options, a list of name/value pairs
    xserver,            \* what the X server has been asked to do so far
    xattr,              \* creation arguments and hints of the adapter's live window
    queue,              \* the connection's pending-event queue
    call,               \* the last member call: arguments, pre-state, result
    str, pos, parsed,   \* parse_pos: input string, result, whether it ran
    q0, results         \* quit-poll loop: the queue it started with, the returns so far

vars == << phase, xdpy_, xwin_, properties_, wm_delete_window_, winsys_options,
           xserver, xattr, queue, call, str, pos, parsed, q0, results >>

adapterVars == << phase, xdpy_, xwin_, properties_, wm_delete_window_,
                  winsys_options, xserver, xattr, queue, call >>
parseVars == << str, pos, parsed >>
drainVars == << q0, results >>

(***************************************************************************)
(* Bounds                                                                  *)
(***************************************************************************)
MaxWindows   == 3   \* windows XCreateWindow may create in one run
MaxOpens     == 2   \* connections XOpenDisplay may open in one run
MaxQueue     == 2   \* pending events while the adapter runs
MaxDrainLen  == 3   \* pending events when the quit-poll loop starts
MaxStrLen    == 4   \* length of the strings given to parse_pos

(***************************************************************************)
(* Strings, Util::split and Util::fromString<int>                          *)
(***************************************************************************)
Digits   == {"1", "2"}
Alphabet == Digits \cup {",", "x"}

Strings == UNION { [1..n -> Alphabet] : n \in 0..MaxStrLen }

DigitVal(c) == IF c = "1" THEN 1 ELSE 2

\* Index of the first delim in s, or 0.
RECURSIVE FirstIndex(_, _, _)
FirstIndex(s, delim, i) ==
    IF i > Len(s) THEN 0
    ELSE IF s[i] = delim THEN i
    ELSE FirstIndex(s, delim, i + 1)

\* Util::split(src, delim, elementVec, SplitModeNormal): one element per
\* getline(ss, item, delim) that succeeds, so an empty source gives no element
\* and a trailing delimiter gives no trailing empty element.
RECURSIVE split(_, _)
split(s, delim) ==
    IF s = << >> THEN << >>
    ELSE LET i == FirstIndex(s, delim, 1)
         IN IF i = 0 THEN << s >>
            ELSE << SubSeq(s, 1, i - 1) >> \o split(SubSeq(s, i + 1, Len(s)), delim)

\* Util::fromString<int>: T retVal = T(); ss >> retVal.  The leading digits are
\* read; with no leading digit the extraction fails and the value is 0.
RECURSIVE ReadDigits(_, _, _)
ReadDigits(s, i, acc) ==
    IF i > Len(s) \/ s[i] \notin Digits THEN acc
    ELSE ReadDigits(s, i + 1, 10 * acc + DigitVal(s[i]))

fromString(s) == ReadDigits(s, 1, 0)

parse_pos(s) ==
    LET d == split(s, ",")
    IN IF Len(d) > 1 THEN << fromString(d[1]), fromString(d[2]) >>
       ELSE << 0, 0 >>

(***************************************************************************)
(* Options                                                                 *)
(***************************************************************************)
x11_position_opt == "position"

Opt(n, v) == [name |-> n, value |-> v]

OptionLists ==
    { << Opt("other", << "2", ",", "1" >>) >>,
      << Opt("position", << "1", ",", "2" >>) >>,
      << Opt("position", << "x" >>), Opt("position", << "2", ",", "1" >>) >> }

\* The value of the last option named "position", or the empty string.
RECURSIVE LastPosition(_, _, _)
LastPosition(opts, i, position) ==
    IF i > Len(opts) THEN position
    ELSE LastPosition(opts, i + 1,
                      IF opts[i].name = x11_position_opt THEN opts[i].value
                      ELSE position)

get_x11_position_option == LastPosition(winsys_options, 1, << >>)

(***************************************************************************)
(* Values                                                                  *)
(***************************************************************************)
Props(w, h, fs, v) == [width |-> w, height |-> h, fullscreen |-> fs, visual_id |-> v]

\* WindowProperties(): what properties_() holds after construction.
DefaultProps == Props(0, 0, FALSE, 0)

\* Visuals the server knows, and the visual ids a caller may ask for.
ServerVisuals  == {33, 34}
RequestVisuals == ServerVisuals \cup {35}

\* Caller-requested sizes: a base size, one wider, one taller.
BaseSize == << 1, 1 >>
Sizes == { BaseSize, << 2, 1 >>, << 1, 2 >> }

Requests ==
    { Props(sz[1], sz[2], fs, v) : sz \in Sizes, fs \in BOOLEAN, v \in RequestVisuals }

\* The requests of a caller that only ever asks for one visual and one size.
QuitRequests == { Props(BaseSize[1], BaseSize[2], fs, 33) : fs \in BOOLEAN }

\* Outcomes of get_main_screen_resolution: failure, or the CRTC mode of the
\* primary output.  The modes are larger than anything a caller requests.
Query(ok, w, h) == [ok |-> ok, width |-> w, height |-> h]
NoQuery == Query(FALSE, 0, 0)
QueryOutcomes == { NoQuery, Query(TRUE, 3, 3), Query(TRUE, 4, 3) }

Event(t, d) == [type |-> t, detail |-> d]
NoEvent == Event("none", "none")
\* detail is the keysym of a KeyPress and data.l[0] of a ClientMessage.
KeyEvents    == { Event("KeyPress", k) : k \in {"XK_Escape", "XK_a"} }
ClientEvents == { Event("ClientMessage", a) : a \in {"WM_DELETE_WINDOW", "WM_TAKE_FOCUS"} }
OtherEvents  == { Event("MappingNotify", "none") }
Events == KeyEvents \cup ClientEvents \cup OtherEvents

\* What XCreateWindow and the hint calls were given for the live window; query
\* is what the resolution query reported in the call that created it.
NoAttr == [win |-> 0, x |-> 0, y |-> 0, width |-> 0, height |-> 0, visual |-> 0,
           hint |-> "none", ppos |-> FALSE, hx |-> 0, hy |-> 0, query |-> NoQuery]

\* The record of the last step: the operation, its arguments and result, and
\* what it did (destroyed: it called XDestroyWindow; created: the window it
\* created; nopen: its XOpenDisplay calls; query: what the resolution query
\* reported; error: which Log::error it made; pending, event: what should_quit
\* found in the queue).
NoCall == [op |-> "none", ret |-> FALSE, req |-> DefaultProps,
           destroyed |-> FALSE, created |-> 0, nopen |-> 0, error |-> "none",
           queried |-> FALSE, query |-> NoQuery,
           pending |-> 0, event |-> NoEvent]

Enter(op) == [NoCall EXCEPT !.op = op]

(***************************************************************************)
(* The X server, as far as the adapter's calls change it                   *)
(***************************************************************************)
NoServer == [conns |-> {}, opens |-> 0, closes |-> 0,
             destroys |-> << >>, late |-> FALSE]

\* XOpenDisplay: a failed call returns NULL, a successful one a new connection.
XOpenDisplay(xs, ok) ==
    IF ok THEN [xs EXCEPT !.opens = @ + 1, !.conns = @ \cup {xs.opens + 1}]
    ELSE xs

XOpenDisplayHandle(xs, ok) == IF ok THEN xs.opens + 1 ELSE 0

XCloseDisplay(xs, dpy) == [xs EXCEPT !.conns = @ \ {dpy}, !.closes = @ + 1]

\* destroys[w] counts the XDestroyWindow calls on window w; late records a
\* call made on a connection that is not open.
XDestroyWindow(xs, dpy, win) ==
    [xs EXCEPT !.destroys[win] = @ + 1, !.late = @ \/ dpy \notin xs.conns]

XCreateWindow(xs) == [xs EXCEPT !.destroys = Append(@, 0)]

XCreateWindowHandle(xs, ok) == IF ok THEN Len(xs.destroys) + 1 ELSE 0

\* XGetVisualInfo with VisualIDMask: NULL unless the server has the visual.
XGetVisualInfo(visualid) == visualid \in ServerVisuals

(***************************************************************************)
(* NativeStateX11                                                          *)
(***************************************************************************)
Alive == phase = "alive"

\* Faulty variant: init_display without the null test, opening on every call.
init_display_opens_always(dpy) == TRUE

\* init_display: if (!xdpy_) xdpy_ = XOpenDisplay(NULL);
init_display_opens(dpy) == dpy = 0

init_display(ok) ==
    /\ Alive
    /\ init_display_opens(xdpy_) => xserver.opens < MaxOpens
    /\ LET opens == init_display_opens(xdpy_)
           dpy   == IF opens THEN XOpenDisplayHandle(xserver, ok) ELSE xdpy_
       IN /\ xdpy_' = dpy
          /\ xserver' = IF opens THEN XOpenDisplay(xserver, ok) ELSE xserver
          /\ call' = [Enter("init_display") EXCEPT !.ret = (dpy # 0),
                                                   !.nopen = IF opens THEN 1 ELSE 0]
    /\ UNCHANGED << phase, xwin_, properties_, wm_delete_window_, winsys_options,
                    xattr, queue, parseVars, drainVars >>

\* Faulty variant: the recreate test without the height comparison.
NeedsRecreate_no_height(cur, req) ==
    \/ cur.fullscreen # req.fullscreen
    \/ /\ req.fullscreen = FALSE
       /\ cur.width # req.width

\* The test that decides whether an existing window is recreated.
NeedsRecreate(cur, req) ==
    \/ cur.fullscreen # req.fullscreen
    \/ /\ req.fullscreen = FALSE
       /\ (cur.width # req.width \/ cur.height # req.height)

\* Faulty variant: a failed resolution query falls back to the caller's size.
DesiredProps_caller_fallback(cur, req, q) ==
    IF req.fullscreen
    THEN IF q.ok THEN Props(q.width, q.height, TRUE, req.visual_id)
         ELSE Props(req.width, req.height, TRUE, req.visual_id)
    ELSE Props(req.width, req.height, FALSE, req.visual_id)

\* "Set desired attributes": properties_ after the assignments, given the
\* outcome q of get_main_screen_resolution (which runs only for fullscreen).
DesiredProps(cur, req, q) ==
    IF req.fullscreen
    THEN IF q.ok THEN Props(q.width, q.height, TRUE, req.visual_id)
         ELSE Props(cur.width, cur.height, TRUE, req.visual_id)
    ELSE Props(req.width, req.height, FALSE, req.visual_id)

\* x, y as passed to XCreateWindow: parse_pos of the option when it is non-empty.
WindowOrigin(x11_position) ==
    IF x11_position # << >> THEN parse_pos(x11_position) ELSE << 0, 0 >>

\* Faulty variant: the result of XCreateWindow is not tested.
create_failed_unchecked(win) == FALSE

\* if (!xwin_) after XCreateWindow
create_failed(win) == win = 0

\* Hints and properties set on the new window.  fsAtom: whether
\* XInternAtom("_NET_WM_STATE_FULLSCREEN", True) returned an atom.
WindowAttr(win, props, x11_position, fsAtom, q) ==
    LET origin == WindowOrigin(x11_position)
        has_x11_position == x11_position # << >>
        fs_atom == props.fullscreen /\ fsAtom
    IN [win |-> win, x |-> origin[1], y |-> origin[2],
        width |-> props.width, height |-> props.height, visual |-> props.visual_id,
        hint |-> IF fs_atom THEN "ewmh" ELSE "size",
        ppos |-> ~fs_atom /\ has_x11_position,
        hx |-> IF ~fs_atom /\ has_x11_position THEN origin[1] ELSE 0,
        hy |-> IF ~fs_atom /\ has_x11_position THEN origin[2] ELSE 0,
        query |-> q]

create_window(req) ==
    /\ Alive
    /\ \/ Len(xserver.destroys) < MaxWindows
       \/ xwin_ # 0 /\ ~NeedsRecreate(properties_, req)   \* a call that creates nothing
    /\ LET x11_position == get_x11_position_option
           c0 == [Enter("create_window") EXCEPT !.req = req]
       IN IF xdpy_ = 0
          THEN /\ call' = [c0 EXCEPT !.ret = FALSE, !.error = "display"]
               /\ UNCHANGED << xwin_, properties_, wm_delete_window_, xserver, xattr >>
          ELSE IF xwin_ # 0 /\ ~NeedsRecreate(properties_, req)
          THEN /\ call' = [c0 EXCEPT !.ret = TRUE]
               /\ UNCHANGED << xwin_, properties_, wm_delete_window_, xserver, xattr >>
          ELSE \E q \in IF req.fullscreen THEN QueryOutcomes ELSE {NoQuery} :
               LET xs1   == IF xwin_ # 0 THEN XDestroyWindow(xserver, xdpy_, xwin_)
                            ELSE xserver
                   props == DesiredProps(properties_, req, q)
                   c1    == [c0 EXCEPT !.destroyed = (xwin_ # 0),
                                       !.queried = req.fullscreen,
                                       !.query = q]
               IN IF ~XGetVisualInfo(props.visual_id)
                  THEN /\ xwin_' = 0
                       /\ properties_' = props
                       /\ xserver' = xs1
                       /\ xattr' = NoAttr
                       /\ call' = [c1 EXCEPT !.ret = FALSE, !.error = "visual"]
                       /\ UNCHANGED wm_delete_window_
                  ELSE \E createOk \in BOOLEAN :
                       LET win == XCreateWindowHandle(xs1, createOk)
                           xs2 == IF createOk THEN XCreateWindow(xs1) ELSE xs1
                       IN IF create_failed(win)
                          THEN /\ xwin_' = win
                               /\ properties_' = props
                               /\ xserver' = xs2
                               /\ xattr' = NoAttr
                               /\ call' = [c1 EXCEPT !.ret = FALSE, !.error = "create"]
                               /\ UNCHANGED wm_delete_window_
                          ELSE \E fsAtom \in IF props.fullscreen THEN BOOLEAN ELSE {FALSE} :
                               /\ xwin_' = win
                               /\ properties_' = props
                               /\ xserver' = xs2
                               /\ xattr' = WindowAttr(win, props, x11_position, fsAtom, q)
                               /\ wm_delete_window_' = "WM_DELETE_WINDOW"
                               /\ call' = [c1 EXCEPT !.ret = TRUE, !.created = win]
    /\ UNCHANGED << phase, xdpy_, winsys_options, queue, parseVars, drainVars >>

\* window(properties): properties = properties_; return (void*)xwin_.  A pure
\* read: what the caller gets back in the current state.
window_properties == properties_
window_handle == xwin_

\* Faulty variant: the destructor closes the display before destroying the window.
DestructorCalls_close_first(xs, dpy, win) ==
    IF dpy # 0
    THEN LET closed == XCloseDisplay(xs, dpy)
         IN IF win # 0 THEN XDestroyWindow(closed, dpy, win) ELSE closed
    ELSE xs

\* ~NativeStateX11: the X calls the destructor makes, in order.
DestructorCalls(xs, dpy, win) ==
    IF dpy # 0
    THEN XCloseDisplay(IF win # 0 THEN XDestroyWindow(xs, dpy, win) ELSE xs, dpy)
    ELSE xs

Destructor ==
    /\ Alive
    /\ phase' = "destroyed"
    /\ xserver' = DestructorCalls(xserver, xdpy_, xwin_)
    /\ call' = Enter("destructor")
    /\ UNCHANGED << xdpy_, xwin_, properties_, wm_delete_window_, winsys_options,
                    xattr, queue, parseVars, drainVars >>

(***************************************************************************)
(* The quit poll                                                           *)
(***************************************************************************)
XPending(q) == Len(q)

\* XNextEvent(xdpy_, &event): the event returned, and the queue it leaves.
XNextEventReturns(q) == Head(q)

\* Faulty variant: the event is read without being removed (XPeekEvent).
XNextEvent_peek(q) == q

XNextEvent(q) == Tail(q)

\* Faulty variant: any key press quits.
quit_event_any_key(e, wm) ==
    IF e.type = "KeyPress" THEN TRUE
    ELSE IF e.type = "ClientMessage" THEN e.detail = wm
    ELSE FALSE

\* The two tests should_quit makes on the event it read.
quit_event(e, wm) ==
    IF e.type = "KeyPress" THEN e.detail = "XK_Escape"
    ELSE IF e.type = "ClientMessage" THEN e.detail = wm
    ELSE FALSE

\* should_quit.  XPending(NULL) is not modelled: the poll runs on an opened
\* display.  wm_delete_window_ is set by the first successful create_window
\* (XInternAtom is taken to return the WM_DELETE_WINDOW atom);
\* comparing a ClientMessage with it before that reads an indeterminate value,
\* so either result is possible then.
should_quit_step ==
    /\ Alive
    /\ xdpy_ # 0
    /\ \E indeterminate \in BOOLEAN :
         LET c0 == [Enter("should_quit") EXCEPT !.pending = XPending(queue)]
         IN IF XPending(queue) = 0
            THEN /\ queue' = queue
                 /\ call' = [c0 EXCEPT !.ret = FALSE]
            ELSE LET event == XNextEventReturns(queue)
                 IN /\ queue' = XNextEvent(queue)
                    /\ call' = [c0 EXCEPT
                          !.event = event,
                          !.ret = IF event.type = "ClientMessage"
                                     /\ wm_delete_window_ = "uninit"
                                  THEN indeterminate
                                  ELSE quit_event(event, wm_delete_window_)]
    /\ UNCHANGED << phase, xdpy_, xwin_, properties_, wm_delete_window_,
                    winsys_options, xserver, xattr, parseVars >>

should_quit ==
    /\ should_quit_step
    /\ UNCHANGED drainVars

\* The server queues an event for the client.  Key presses and client
\* messages are addressed to a window, so they arrive only while the adapter
\* has one; MappingNotify goes to every client.
EventArrives(e) ==
    /\ Alive
    /\ xdpy_ \in xserver.conns
    /\ Len(queue) < MaxQueue
    /\ e \in KeyEvents \cup ClientEvents => xwin_ # 0
    /\ queue' = Append(queue, e)
    /\ call' = Enter("XEvent")
    /\ UNCHANGED << phase, xdpy_, xwin_, properties_, wm_delete_window_,
                    winsys_options, xserver, xattr, parseVars, drainVars >>

(***************************************************************************)
(* Specifications                                                          *)
(***************************************************************************)
\* The state after NativeStateX11::NativeStateX11().
Constructed ==
    /\ phase = "alive"
    /\ xdpy_ = 0
    /\ xwin_ = 0
    /\ properties_ = DefaultProps
    /\ wm_delete_window_ = "uninit"
    /\ xserver = NoServer
    /\ xattr = NoAttr
    /\ queue = << >>
    /\ call = NoCall

Init ==
    /\ Constructed
    /\ winsys_options \in OptionLists
    /\ str = << >> /\ pos = << 0, 0 >> /\ parsed = FALSE
    /\ q0 = << >> /\ results = << >>

\* The adapter's display and window operations, on every request.
Next ==
    \/ \E ok \in BOOLEAN : init_display(ok)
    \/ \E req \in Requests : create_window(req)
    \/ Destructor

Spec == Init /\ [][Next]_vars

\* The adapter with its event queue, for a caller with one visual and size.
InitQuit ==
    /\ Init
    /\ winsys_options = << Opt("other", << "2", ",", "1" >>) >>

NextQuit ==
    \/ \E ok \in BOOLEAN : init_display(ok)
    \/ \E req \in QuitRequests : create_window(req)
    \/ should_quit
    \/ \E e \in Events : EventArrives(e)
    \/ Destructor

QuitSpec == InitQuit /\ [][NextQuit]_vars

\* parse_pos on every string over the alphabet, up to MaxStrLen characters.
ParsePos ==
    /\ ~parsed
    /\ parsed' = TRUE
    /\ pos' = parse_pos(str)
    /\ UNCHANGED << str, adapterVars, drainVars >>

InitParse ==
    /\ Constructed
    /\ winsys_options = << >>
    /\ str \in Strings /\ pos = << 0, 0 >> /\ parsed = FALSE
    /\ q0 = << >> /\ results = << >>

ParseSpec == InitParse /\ [][ParsePos]_vars

\* The caller's loop: should_quit once per frame, with no new events
\* arriving, starting after init_display and create_window have succeeded.
BoundedQueues == UNION { [1..n -> Events] : n \in 0..MaxDrainLen }

InitDrain ==
    /\ phase = "alive"
    /\ winsys_options = << Opt("other", << "2", ",", "1" >>) >>
    /\ queue \in BoundedQueues
    /\ xdpy_ = XOpenDisplayHandle(NoServer, TRUE)
    /\ xserver = XCreateWindow(XOpenDisplay(NoServer, TRUE))
    /\ xwin_ = XCreateWindowHandle(XOpenDisplay(NoServer, TRUE), TRUE)
    /\ \E req \in QuitRequests :
          /\ ~req.fullscreen
          /\ properties_ = DesiredProps(DefaultProps, req, NoQuery)
          /\ xattr = WindowAttr(xwin_, properties_, get_x11_position_option, FALSE, NoQuery)
          /\ call = IF queue = << >>
                    THEN [Enter("create_window") EXCEPT !.req = req, !.ret = TRUE,
                                                        !.created = xwin_]
                    ELSE Enter("XEvent")
    /\ wm_delete_window_ = "WM_DELETE_WINDOW"
    /\ q0 = queue /\ results = << >>
    /\ str = << >> /\ pos = << 0, 0 >> /\ parsed = FALSE

Poll ==
    /\ Len(results) <= Len(q0)
    /\ should_quit_step
    /\ results' = Append(results, call'.ret)
    /\ UNCHANGED q0

DrainSpec == InitDrain /\ [][Poll]_vars /\ WF_vars(Poll)

(***************************************************************************)
(* Claims                                                                  *)
(***************************************************************************)
SameSize(a, b) == a.width = b.width /\ a.height = b.height

\* The recreate condition as the claim words it.
ClaimRecreate(stored, req) ==
    \/ stored.fullscreen # req.fullscreen
    \/ (~req.fullscreen /\ ~SameSize(stored, req))

\* C1: a create_window call made while a window exists destroys that window
\* exactly when the fullscreen flag differs from the stored one or the request
\* is non-fullscreen with a different width or height; it then goes on to
\* create a new window (which it holds exactly when it returns true);
\* otherwise it returns true and leaves the handle, the stored properties and
\* the server's windows as they were.
C1_ReuseOrRecreate ==
    [][ (call'.op = "create_window" /\ xwin_ # 0) =>
          LET recreate == ClaimRecreate(properties_, call'.req)
              destroyedOld == xserver'.destroys[xwin_] = xserver.destroys[xwin_] + 1
              createdNew ==
                  /\ Len(xserver'.destroys) = Len(xserver.destroys) + 1
                  /\ xwin_' = Len(xserver'.destroys)
          IN /\ destroyedOld <=> recreate
             /\ recreate => (xwin_' # xwin_ /\ (createdNew <=> call'.ret))
             /\ ~recreate => /\ call'.ret
                             /\ xwin_' = xwin_
                             /\ properties_' = properties_
                             /\ xserver' = xserver ]_vars

\* A call that reused a window which is itself the third the adapter made.
C1_Witness ==
    /\ call.op = "create_window" /\ call.ret
    /\ ~call.destroyed /\ call.created = 0
    /\ xwin_ = 3 /\ ~window_properties.fullscreen

C3_Original ==
    (call.op = "create_window" /\ call.ret) =>
        /\ xattr.visual = call.req.visual_id
        /\ window_properties.visual_id = call.req.visual_id

\* A quit signal as the claim words it.
IsQuitSignal(e) ==
    \/ (e.type = "KeyPress" /\ e.detail = "XK_Escape")
    \/ (e.type = "ClientMessage" /\ e.detail = "WM_DELETE_WINDOW")

\* C4: should_quit returns true exactly when an event was pending and the
\* event it read is an escape key press or a WM_DELETE_WINDOW client message;
\* with nothing pending it returns false and the queue stays empty.
C4_QuitIff ==
    call.op = "should_quit" =>
        /\ call.ret <=> (call.pending > 0 /\ IsQuitSignal(call.event))
        /\ call.pending = 0 => (~call.ret /\ queue = << >>)

C4_Witness ==
    /\ call.op = "should_quit" /\ call.ret
    /\ call.event = Event("ClientMessage", "WM_DELETE_WINDOW")

\* C5: with no events arriving, after n polls the queue is the starting queue
\* without its first n events (one event per call, none once it is empty),
\* the i-th poll returned true exactly when the i-th starting event was a quit
\* signal, and the queue is eventually empty.
C5_OnePerCall ==
    /\ []( /\ queue = SubSeq(q0, Len(results) + 1, Len(q0))
           /\ \A i \in 1..Len(results) :
                 results[i] = (i <= Len(q0) /\ IsQuitSignal(q0[i])) )
    /\ <>(queue = << >>)

\* A quit signal behind two other events, reported by the third poll.
C5_Witness == results = << FALSE, FALSE, TRUE >>

\* C6 as stated: unless the window created is non-fullscreen and the position
\* option is non-empty, the option reaches neither the origin given to
\* XCreateWindow nor the size hints.
C6_Original ==
    xattr.win # 0 =>
        ( ~(~window_properties.fullscreen /\ get_x11_position_option # << >>) =>
            (xattr.x = 0 /\ xattr.y = 0 /\ ~xattr.ppos) )

\* A field that is an integer, and a string whose first two comma-separated
\* fields are integers.
IsInteger(f) == f # << >> /\ \A i \in 1..Len(f) : f[i] \in Digits

WellFormed(s) ==
    LET i == FirstIndex(s, ",", 1)
        rest == SubSeq(s, i + 1, Len(s))
        j == FirstIndex(rest, ",", 1)
    IN /\ i # 0
       /\ IsInteger(SubSeq(s, 1, i - 1))
       /\ IsInteger(IF j = 0 THEN rest ELSE SubSeq(rest, 1, j - 1))

\* C7 as stated: parse_pos of an empty or malformed string is (0,0).
C7_Original == (parsed /\ ~WellFormed(str)) => pos = << 0, 0 >>

\* C8: no XDestroyWindow is made on a closed connection; no window is
\* destroyed twice; while the adapter lives the only window not destroyed is
\* the one it holds and its connection is not closed; after the destructor
\* every window made has been destroyed once and the connection, if one was
\* opened, has been closed once.
C8_Lifecycle ==
    LET d == xserver.destroys
    IN /\ ~xserver.late
       /\ \A w \in DOMAIN d : d[w] <= 1
       /\ xserver.closes <= 1
       /\ Alive => /\ xserver.closes = 0
                   /\ \A w \in DOMAIN d : (d[w] = 0) <=> (w = xwin_)
                   /\ xwin_ # 0 => (xwin_ \in DOMAIN d /\ xdpy_ \in xserver.conns)
       /\ ~Alive => /\ \A w \in DOMAIN d : d[w] = 1
                    /\ xserver.conns = {}
                    /\ xserver.closes = xserver.opens

\* Torn down while holding the second window it made.
C8_Witness ==
    /\ ~Alive /\ xwin_ = 2 /\ xserver.closes = 1
    /\ xserver.destroys = << 1, 1 >>

\* C9: at most one connection is ever opened; a call makes at most one
\* XOpenDisplay call, returns true exactly when xdpy_ is set on return, and
\* with xdpy_ already set returns true without calling XOpenDisplay.
C9_IdempotentOpen ==
    /\ []( /\ xserver.opens <= 1
           /\ Cardinality(xserver.conns) <= 1
           /\ call.op = "init_display" =>
                 /\ call.ret <=> (xdpy_ # 0)
                 /\ call.nopen <= 1
                 /\ ~call.ret => call.nopen = 1 )
    /\ [][ (call'.op = "init_display" /\ xdpy_ # 0) =>
             /\ call'.ret /\ call'.nopen = 0
             /\ xdpy_' = xdpy_ /\ xserver' = xserver ]_vars

\* A later call that returned true without opening.
C9_Witness ==
    /\ call.op = "init_display" /\ call.ret /\ call.nopen = 0
    /\ xserver.opens = 1

\* C10: after a create_window call, it returned true exactly when xwin_ is
\* set; it returned false exactly when it reported an error, which is the
\* uninitialized display exactly when xdpy_ was null, the visual lookup only
\* for a visual the server lacks, and window creation only when no window was
\* made; and after a failed call no window of the adapter is left alive.
C10_FailureLeavesNoWindow ==
    /\ []( call.op = "create_window" =>
             /\ call.ret <=> (xwin_ # 0)
             /\ ~call.ret <=> (call.error \in {"display", "visual", "create"})
             /\ ~call.ret => \A w \in DOMAIN xserver.destroys :
                                 xserver.destroys[w] = 1 )
    /\ [][ call'.op = "create_window" =>
             /\ (call'.error = "display") <=> (xdpy_ = 0)
             /\ (call'.error = "visual") => call'.req.visual_id \notin ServerVisuals
             /\ (call'.error = "create") =>
                   Len(xserver'.destroys) = Len(xserver.destroys) ]_vars

\* A call that destroyed the existing window and then failed.
C10_Witness ==
    /\ call.op = "create_window" /\ ~call.ret /\ call.destroyed
    /\ xwin_ = 0

====
